---------------------------- MODULE Spec2Model ----------------------------
(***************************************************************************)
(* A model of misc/tools/bake-vf.py: the family/style renaming of a font's *)
(* name table and the axis list handed to the STAT builder.                *)
(*                                                                         *)
(* A Python string is a sequence of one-character strings, so that find,   *)
(* replace, strip, the whitespace regular expression and list.sort() are   *)
(* computed character by character, as Python computes them.               *)
(*                                                                         *)
(* A record's string is the text toUnicode() yields for it; the script     *)
(* reads records only through toUnicode() and writes str values back.      *)
(***************************************************************************)
EXTENDS Integers, Sequences, FiniteSets, TLC

VARIABLES
  names,            \* font["name"].names: the in-memory list of name records
  orig,             \* the name records as loaded from the input file
  family,           \* args.family as parsed (the empty string when not given)
  pc,               \* position of main(), or of the rename/rename-back run
  prevFamilyNames,  \* the candidate list of the last setFamilyName call
  stylename,        \* main()'s local stylename (lines 349-351)
  stat,             \* the axis list gen_stat passed to buildStatTable
  saved             \* whether font.save(outfile) has been called

vars == <<names, orig, family, pc, prevFamilyNames, stylename, stat, saved>>

---------------------------------------------------------------------------
(* Words of the program text and of the inputs, as character sequences.    *)

SP == <<" ">>
TAB == <<"\t">>
HYPHEN == <<"-">>
Inter == <<"I", "n", "t", "e", "r">>
Variable == <<"V", "a", "r", "i", "a", "b", "l", "e">>
Display == <<"D", "i", "s", "p", "l", "a", "y">>
Regular == <<"R", "e", "g", "u", "l", "a", "r">>
Italic == <<"I", "t", "a", "l", "i", "c">>
Thin == <<"T", "h", "i", "n">>
Bold == <<"B", "o", "l", "d">>
Ab == <<"A", "b">>
InterVariable == Inter \o SP \o Variable

\* The characters in use, in code-point order (str comparison in list.sort()).
CodePoints ==
  <<"\t", " ", "-", ".", "0", "1", ";",
    "A", "B", "D", "I", "R", "T", "V",
    "a", "b", "c", "d", "e", "g", "h", "i", "l", "n", "o", "p", "r", "s",
    "t", "u", "y">>

ord(c) == CHOOSE i \in 1..Len(CodePoints) : CodePoints[i] = c

---------------------------------------------------------------------------
(* Python str operations.                                                  *)

isspace(c) == c \in {" ", "\t"}

\* s[i:j] with 0-based, already clamped indices
Slice(s, i, j) == SubSeq(s, i + 1, j)

\* s.find(sub): the lowest 0-based index of sub in s, or -1
find(s, sub) ==
  LET hits == {i \in 0..(Len(s) - Len(sub)) : Slice(s, i, i + Len(sub)) = sub}
  IN  IF hits = {} THEN -1 ELSE CHOOSE i \in hits : \A j \in hits : i <= j

\* s.rfind(sub): the highest 0-based index of sub in s, or -1
rfind(s, sub) ==
  LET hits == {i \in 0..(Len(s) - Len(sub)) : Slice(s, i, i + Len(sub)) = sub}
  IN  IF hits = {} THEN -1 ELSE CHOOSE i \in hits : \A j \in hits : i >= j

\* sub in s
contains(s, sub) == find(s, sub) # -1

\* s.replace(old, new) for a non-empty old: every non-overlapping occurrence,
\* scanning left to right, in one pass
RECURSIVE replace(_, _, _)
replace(s, old, new) ==
  LET i == find(s, old)
  IN  IF i = -1 THEN s
      ELSE Slice(s, 0, i) \o new
             \o replace(Slice(s, i + Len(old), Len(s)), old, new)

RECURSIVE lstrip(_)
lstrip(s) ==
  IF s # <<>> /\ isspace(Head(s)) THEN lstrip(Tail(s)) ELSE s

RECURSIVE rstrip(_)
rstrip(s) ==
  IF s # <<>> /\ isspace(s[Len(s)]) THEN rstrip(Slice(s, 0, Len(s) - 1)) ELSE s

\* s.strip()
strip(s) == rstrip(lstrip(s))

\* WHITESPACE_RE.sub(repl, s): every maximal run of whitespace becomes repl
RECURSIVE WHITESPACE_RE_sub(_, _)
WHITESPACE_RE_sub(repl, s) ==
  IF s = <<>> THEN <<>>
  ELSE IF isspace(Head(s))
       THEN repl \o WHITESPACE_RE_sub(repl, lstrip(s))
       ELSE <<Head(s)>> \o WHITESPACE_RE_sub(repl, Tail(s))

remove_whitespace(s) == WHITESPACE_RE_sub(<<>>, s)

normalize_whitespace(s) == WHITESPACE_RE_sub(SP, s)

\* remove_substring without its trailing .strip()
remove_substring_noFinalStrip(s, substr) ==
  normalize_whitespace(replace(strip(s), substr, <<>>))

remove_substring(s, substr) ==
  strip(normalize_whitespace(replace(strip(s), substr, <<>>)))

\* a < b as Python compares str: by code point, a proper prefix being smaller
RECURSIVE str_lt(_, _)
str_lt(a, b) ==
  IF b = <<>> THEN FALSE
  ELSE IF a = <<>> THEN TRUE
  ELSE IF Head(a) # Head(b) THEN ord(Head(a)) < ord(Head(b))
  ELSE str_lt(Tail(a), Tail(b))

\* list.sort() of distinct strings: ascending
RECURSIVE sort(_)
sort(l) ==
  IF l = <<>> THEN <<>>
  ELSE LET m == CHOOSE i \in 1..Len(l) :
                  \A j \in 1..Len(l) : j # i => str_lt(l[i], l[j])
       IN  <<l[m]>> \o sort(Slice(l, 0, m - 1) \o Slice(l, m, Len(l)))

\* list.reverse()
reverse(l) == [i \in 1..Len(l) |-> l[Len(l) + 1 - i]]

---------------------------------------------------------------------------
(* The name table: record keys and the fontTools accessors the script uses.*)

WINDOWS_ENGLISH_IDS == <<3, 1, 1033>>      \* 0x409
MAC_ROMAN_IDS == <<1, 0, 0>>

LEGACY_FAMILY == 1
SUBFAMILY_NAME == 2
TRUETYPE_UNIQUE_ID == 3
FULL_NAME == 4
POSTSCRIPT_NAME == 6
PREFERRED_FAMILY == 16
TYPO_SUBFAMILY_NAME == 17
WWS_FAMILY == 21
VAR_PS_NAME_PREFIX == 25

FAMILY_RELATED_IDS ==
  {LEGACY_FAMILY, TRUETYPE_UNIQUE_ID, FULL_NAME, POSTSCRIPT_NAME,
   PREFERRED_FAMILY, WWS_FAMILY, VAR_PS_NAME_PREFIX}

\* A name record; ids is <<platformID, platEncID, langID>>
NameRecord(string, nameID, ids) ==
  [nameID |-> nameID, platformID |-> ids[1], platEncID |-> ids[2],
   langID |-> ids[3], string |-> string]

\* nameTable.getName(nameID, platformID, platEncID, langID): the position of
\* the first record with that key, 0 standing for None
getName(table, nameID, ids) ==
  LET hits == {i \in 1..Len(table) :
                 /\ table[i].nameID = nameID
                 /\ table[i].platformID = ids[1]
                 /\ table[i].platEncID = ids[2]
                 /\ table[i].langID = ids[3]}
  IN  IF hits = {} THEN 0 ELSE CHOOSE i \in hits : \A j \in hits : i <= j

\* nameTable.setName(string, nameID, platformID, platEncID, langID):
\* overwrite the record with that key, or append a new one
setName(table, string, nameID, ids) ==
  LET i == getName(table, nameID, ids)
  IN  IF i # 0 THEN [table EXCEPT ![i].string = string]
      ELSE Append(table, NameRecord(string, nameID, ids))

\* The first position among the looked-up keys that holds a record, 0 if
\* none does; keys is a sequence of <<nameID, ids>> in lookup order
RECURSIVE firstFound(_, _)
firstFound(table, keys) ==
  IF keys = <<>> THEN 0
  ELSE LET i == getName(table, Head(keys)[1], Head(keys)[2])
       IN  IF i # 0 THEN i ELSE firstFound(table, Tail(keys))

\* The two nested for-loops of getFamilyName and getFamilyNames
FamilyLookupOrder ==
  << <<PREFERRED_FAMILY, WINDOWS_ENGLISH_IDS>>,
     <<LEGACY_FAMILY, WINDOWS_ENGLISH_IDS>>,
     <<PREFERRED_FAMILY, MAC_ROMAN_IDS>>,
     <<LEGACY_FAMILY, MAC_ROMAN_IDS>> >>

\* The two nested for-loops of getStyleName
StyleLookupOrder ==
  << <<TYPO_SUBFAMILY_NAME, WINDOWS_ENGLISH_IDS>>,
     <<SUBFAMILY_NAME, WINDOWS_ENGLISH_IDS>>,
     <<TYPO_SUBFAMILY_NAME, MAC_ROMAN_IDS>>,
     <<SUBFAMILY_NAME, MAC_ROMAN_IDS>> >>

---------------------------------------------------------------------------
(* The script's functions.  A function that can raise comes as a pair: a   *)
(* predicate X_raises for the inputs on which it raises, and the value on  *)
(* the others.                                                             *)

\* font_is_italic: getName(2, 3, 1, 0x409) is None, so .toUnicode() raises
font_is_italic_raises(table) ==
  getName(table, SUBFAMILY_NAME, WINDOWS_ENGLISH_IDS) = 0

font_is_italic(table) ==
  contains(table[getName(table, SUBFAMILY_NAME, WINDOWS_ENGLISH_IDS)].string,
           Italic)

set_full_name(table, fullName, fullNamePs) ==
  LET t1 == setName(table, fullName, FULL_NAME, MAC_ROMAN_IDS)
      t2 == setName(t1, fullName, FULL_NAME, WINDOWS_ENGLISH_IDS)
      t3 == setName(t2, fullNamePs, POSTSCRIPT_NAME, MAC_ROMAN_IDS)
  IN  setName(t3, fullNamePs, POSTSCRIPT_NAME, WINDOWS_ENGLISH_IDS)

getFamilyName_raises(table) == firstFound(table, FamilyLookupOrder) = 0

getFamilyName(table) == table[firstFound(table, FamilyLookupOrder)].string

\* names[r.toUnicode()] = True for each record found: the dict's keys, in
\* insertion order
RECURSIVE familyNameKeys(_, _, _)
familyNameKeys(table, keys, acc) ==
  IF keys = <<>> THEN acc
  ELSE LET i == getName(table, Head(keys)[1], Head(keys)[2])
           seen == i # 0 /\ \E k \in 1..Len(acc) : acc[k] = table[i].string
       IN  familyNameKeys(table, Tail(keys),
             IF i = 0 \/ seen THEN acc ELSE Append(acc, table[i].string))

\* getFamilyNames without the check of line 184
getFamilyNames_neverRaises(table) == FALSE

getFamilyNames_raises(table) ==
  Len(familyNameKeys(table, FamilyLookupOrder, <<>>)) = 0

getFamilyNames(table) ==
  reverse(sort(familyNameKeys(table, FamilyLookupOrder, <<>>)))

getStyleName_raises(table) == firstFound(table, StyleLookupOrder) = 0

getStyleName(table) == table[firstFound(table, StyleLookupOrder)].string

\* setStyleName without the test of line 205: "Regular" is not elided
setStyleName_keepsRegular(table, newStyleName) ==
  LET newFullName == strip(getFamilyName(table)) \o SP \o newStyleName
      t == set_full_name(table, newFullName, remove_whitespace(newFullName))
  IN  [i \in 1..Len(t) |->
         IF t[i].nameID \in {SUBFAMILY_NAME, TYPO_SUBFAMILY_NAME}
         THEN [t[i] EXCEPT !.string = newStyleName]
         ELSE t[i]]

setStyleName(table, newStyleName) ==
  LET base == strip(getFamilyName(table))
      newFullName == IF newStyleName # Regular
                     THEN base \o SP \o newStyleName ELSE base
      newFullNamePs == remove_whitespace(newFullName)
      t == set_full_name(table, newFullName, newFullNamePs)
  IN  [i \in 1..Len(t) |->
         IF t[i].nameID \in {SUBFAMILY_NAME, TYPO_SUBFAMILY_NAME}
         THEN [t[i] EXCEPT !.string = newStyleName]
         ELSE t[i]]

\* renameRecord with the break of line 233 one level out: only the first
\* candidate is tried
renameRecord_firstCandidateOnly(s, prevNames, nextFamilyName) ==
  IF prevNames = <<>> \/ find(s, Head(prevNames)) = -1 THEN s
  ELSE Slice(s, 0, find(s, Head(prevNames))) \o nextFamilyName
         \o Slice(s, find(s, Head(prevNames)) + Len(Head(prevNames)), Len(s))

\* renameRecord: the record's string after the call.  The first candidate
\* found in s is replaced, at its first occurrence, by nextFamilyName
RECURSIVE renameRecord(_, _, _)
renameRecord(s, prevNames, nextFamilyName) ==
  IF prevNames = <<>> THEN s
  ELSE LET prevFamilyName == Head(prevNames)
           start == find(s, prevFamilyName)
           end == start + Len(prevFamilyName)
       IN  IF start = -1
           THEN renameRecord(s, Tail(prevNames), nextFamilyName)
           ELSE Slice(s, 0, start) \o nextFamilyName \o Slice(s, end, Len(s))

\* psPrevFamilyNames without line 244: of a name with spaces, only the
\* hyphenated form is kept
RECURSIVE psPrevFamilyNames_hyphenOnly(_)
psPrevFamilyNames_hyphenOnly(prevNames) ==
  IF prevNames = <<>> THEN <<>>
  ELSE LET s == strip(Head(prevNames))
           p == rfind(s, SP)
       IN  (IF find(s, SP) = -1
            THEN <<s>>
            ELSE <<Slice(s, 0, p) \o HYPHEN \o Slice(s, p + 1, Len(s))>>)
           \o psPrevFamilyNames_hyphenOnly(Tail(prevNames))

\* Lines 237-248: the PostScript forms of the candidates
RECURSIVE psPrevFamilyNames(_)
psPrevFamilyNames(prevNames) ==
  IF prevNames = <<>> THEN <<>>
  ELSE LET s == strip(Head(prevNames))
           p == rfind(s, SP)
       IN  (IF find(s, SP) = -1
            THEN <<s>>
            ELSE <<replace(s, SP, <<>>),
                   Slice(s, 0, p) \o HYPHEN \o Slice(s, p + 1, Len(s))>>)
           \o psPrevFamilyNames(Tail(prevNames))

\* Lines 264-268: the first PostScript candidate contained in s, as a list
\* of one, or the empty list for None
RECURSIVE prev_psname(_, _)
prev_psname(s, psPrevNames) ==
  IF psPrevNames = <<>> THEN <<>>
  ELSE IF contains(s, Head(psPrevNames)) THEN <<Head(psPrevNames)>>
  ELSE prev_psname(s, Tail(psPrevNames))

\* Lines 255-285: the body of the loop over nameTable.names, for one record
renameOne(rec, prevNames, nextFamilyName) ==
  LET psPrevNames == psPrevFamilyNames(prevNames)
      psNextFamilyName == replace(nextFamilyName, SP, <<>>)
      s == rec.string
  IN  IF rec.nameID \notin FAMILY_RELATED_IDS THEN rec
      ELSE IF rec.nameID = POSTSCRIPT_NAME
      THEN [rec EXCEPT !.string = renameRecord(s, psPrevNames, psNextFamilyName)]
      ELSE IF rec.nameID = TRUETYPE_UNIQUE_ID
      THEN IF prev_psname(s, psPrevNames) # <<>>
           THEN [rec EXCEPT !.string =
                   renameRecord(s, prev_psname(s, psPrevNames), psNextFamilyName)]
           ELSE [rec EXCEPT !.string = renameRecord(s, prevNames, nextFamilyName)]
      ELSE [rec EXCEPT !.string = renameRecord(s, prevNames, nextFamilyName)]

\* Lines 254-285: the table after the loop
renameAll(table, prevNames, nextFamilyName) ==
  [i \in 1..Len(table) |-> renameOne(table[i], prevNames, nextFamilyName)]

found_VAR_PS_NAME_PREFIX(table) ==
  \E i \in 1..Len(table) : table[i].nameID = VAR_PS_NAME_PREFIX

\* Line 289: whether the nameID 25 records are synthesized
addsVarPSNamePrefix(table, nextFamilyName) ==
  ~found_VAR_PS_NAME_PREFIX(table) /\ find(nextFamilyName, Variable) # -1

\* Lines 290-294, applied to the table the loop left
addVarPSNamePrefix(table, nextFamilyName) ==
  LET base == remove_whitespace(nextFamilyName)
      varPSNamePrefix == IF font_is_italic(table) THEN base \o Italic ELSE base
      t1 == setName(table, varPSNamePrefix, VAR_PS_NAME_PREFIX, MAC_ROMAN_IDS)
  IN  setName(t1, varPSNamePrefix, VAR_PS_NAME_PREFIX, WINDOWS_ENGLISH_IDS)

\* setFamilyName raises in getFamilyNames (line 218), before any record is
\* touched, or in font_is_italic (line 291), after the loop
setFamilyName_raises(table, nextFamilyName) ==
  \/ getFamilyNames_raises(table)
  \/ /\ addsVarPSNamePrefix(table, nextFamilyName)
     /\ font_is_italic_raises(table)

\* The table setFamilyName leaves behind, also when it raises
setFamilyName(table, nextFamilyName) ==
  IF getFamilyNames_raises(table) THEN table
  ELSE LET t == renameAll(table, getFamilyNames(table), nextFamilyName)
       IN  IF ~addsVarPSNamePrefix(table, nextFamilyName) THEN t
           ELSE IF font_is_italic_raises(t) THEN t
           ELSE addVarPSNamePrefix(t, nextFamilyName)

---------------------------------------------------------------------------
(* The axis list of the STAT table.  A Python dict is a record; a key the  *)
(* dict does not have is a field the record does not have.                 *)

ELIDABLE == 2      \* flags=0x2

Format2(nominalValue, rangeMinValue, rangeMaxValue, name) ==
  [nominalValue |-> nominalValue, rangeMinValue |-> rangeMinValue,
   rangeMaxValue |-> rangeMaxValue, name |-> name]

\* stat_axes_format_2 with the Regular entry linked to 600, the value of no
\* entry
stat_axes_format_2_wrongLink(is_italic) ==
  << [name |-> "Optical Size", tag |-> "opsz", ordering |-> 0, values |-> <<
        Format2(14, 14, 21, "14pt"),
        Format2(28, 21, 28, "28pt") >>],
     [name |-> "Weight", tag |-> "wght", ordering |-> 1, values |-> <<
        Format2(100, 100, 150, "Thin"),
        Format2(200, 150, 250, "ExtraLight"),
        Format2(300, 250, 350, "Light"),
        [nominalValue |-> 400, rangeMinValue |-> 350, rangeMaxValue |-> 450,
         name |-> "Regular", flags |-> ELIDABLE, linkedValue |-> 600],
        Format2(500, 450, 540, "Medium"),
        Format2(580, 540, 620, "SemiBold"),
        Format2(660, 620, 720, "Bold"),
        Format2(780, 720, 840, "ExtraBold"),
        Format2(900, 840, 900, "Black") >>],
     [name |-> "Italic", tag |-> "ital", ordering |-> 2, values |-> <<
        IF is_italic
        THEN [value |-> 1, name |-> "Italic"]
        ELSE [value |-> 0, name |-> "Roman", flags |-> ELIDABLE,
              linkedValue |-> 1] >>] >>

\* stat_axes_format_2 with the test of line 48 inverted
stat_axes_format_2_inverted(is_italic) ==
  << [name |-> "Optical Size", tag |-> "opsz", ordering |-> 0, values |-> <<
        Format2(14, 14, 21, "14pt"),
        Format2(28, 21, 28, "28pt") >>],
     [name |-> "Weight", tag |-> "wght", ordering |-> 1, values |-> <<
        Format2(100, 100, 150, "Thin"),
        Format2(200, 150, 250, "ExtraLight"),
        Format2(300, 250, 350, "Light"),
        [nominalValue |-> 400, rangeMinValue |-> 350, rangeMaxValue |-> 450,
         name |-> "Regular", flags |-> ELIDABLE, linkedValue |-> 660],
        Format2(500, 450, 540, "Medium"),
        Format2(580, 540, 620, "SemiBold"),
        Format2(660, 620, 720, "Bold"),
        Format2(780, 720, 840, "ExtraBold"),
        Format2(900, 840, 900, "Black") >>],
     [name |-> "Italic", tag |-> "ital", ordering |-> 2, values |-> <<
        IF ~is_italic
        THEN [value |-> 1, name |-> "Italic"]
        ELSE [value |-> 0, name |-> "Roman", flags |-> ELIDABLE,
              linkedValue |-> 1] >>] >>

stat_axes_format_2(is_italic) ==
  << [name |-> "Optical Size", tag |-> "opsz", ordering |-> 0, values |-> <<
        Format2(14, 14, 21, "14pt"),
        Format2(28, 21, 28, "28pt") >>],
     [name |-> "Weight", tag |-> "wght", ordering |-> 1, values |-> <<
        Format2(100, 100, 150, "Thin"),
        Format2(200, 150, 250, "ExtraLight"),
        Format2(300, 250, 350, "Light"),
        [nominalValue |-> 400, rangeMinValue |-> 350, rangeMaxValue |-> 450,
         name |-> "Regular", flags |-> ELIDABLE, linkedValue |-> 660],
        Format2(500, 450, 540, "Medium"),
        Format2(580, 540, 620, "SemiBold"),
        Format2(660, 620, 720, "Bold"),
        Format2(780, 720, 840, "ExtraBold"),
        Format2(900, 840, 900, "Black") >>],
     [name |-> "Italic", tag |-> "ital", ordering |-> 2, values |-> <<
        IF is_italic
        THEN [value |-> 1, name |-> "Italic"]
        ELSE [value |-> 0, name |-> "Roman", flags |-> ELIDABLE,
              linkedValue |-> 1] >>] >>

---------------------------------------------------------------------------
(* Input fonts.  A name table is the family records of one FamilyInputs    *)
(* entry, the subfamily records of one StyleInputs entry and at most       *)
(* MaxExtra of the further records of ExtraInputs.                         *)

MaxExtra == 2

\* A third platform/encoding/language, neither of the two the script looks
\* up by key: Windows, Unicode BMP, German (0x407)
OTHER_IDS == <<3, 1, 1031>>

FamilyInputs ==
  << <<>>,
     <<NameRecord(Inter, LEGACY_FAMILY, WINDOWS_ENGLISH_IDS)>>,
     <<NameRecord(Inter, LEGACY_FAMILY, MAC_ROMAN_IDS),
       NameRecord(Inter, LEGACY_FAMILY, WINDOWS_ENGLISH_IDS)>>,
     <<NameRecord(Inter, LEGACY_FAMILY, WINDOWS_ENGLISH_IDS),
       NameRecord(Inter \o SP \o Display, PREFERRED_FAMILY, WINDOWS_ENGLISH_IDS)>>,
     <<NameRecord(Ab \o SP \o Inter, LEGACY_FAMILY, WINDOWS_ENGLISH_IDS),
       NameRecord(Inter, PREFERRED_FAMILY, WINDOWS_ENGLISH_IDS)>>,
     <<NameRecord(Inter, LEGACY_FAMILY, MAC_ROMAN_IDS)>>,
     <<NameRecord(InterVariable, LEGACY_FAMILY, WINDOWS_ENGLISH_IDS)>> >>

StyleInputs ==
  << <<>>,
     <<NameRecord(Regular, SUBFAMILY_NAME, WINDOWS_ENGLISH_IDS)>>,
     <<NameRecord(Italic, SUBFAMILY_NAME, WINDOWS_ENGLISH_IDS),
       NameRecord(Thin \o SP \o Italic, TYPO_SUBFAMILY_NAME, WINDOWS_ENGLISH_IDS)>>,
     <<NameRecord(Regular, SUBFAMILY_NAME, WINDOWS_ENGLISH_IDS),
       NameRecord(Display \o SP \o Thin, TYPO_SUBFAMILY_NAME, WINDOWS_ENGLISH_IDS)>>,
     <<NameRecord(Regular, SUBFAMILY_NAME, WINDOWS_ENGLISH_IDS),
       NameRecord(Italic, TYPO_SUBFAMILY_NAME, WINDOWS_ENGLISH_IDS)>>,
     <<NameRecord(Display, SUBFAMILY_NAME, WINDOWS_ENGLISH_IDS)>>,
     <<NameRecord(Thin, TYPO_SUBFAMILY_NAME, WINDOWS_ENGLISH_IDS)>>,
     <<NameRecord(Bold, SUBFAMILY_NAME, MAC_ROMAN_IDS)>>,
     <<NameRecord(SP \o Thin \o SP \o TAB \o Italic, SUBFAMILY_NAME,
                  WINDOWS_ENGLISH_IDS),
       NameRecord(Bold, SUBFAMILY_NAME, OTHER_IDS)>>,
     <<NameRecord(<<"D", "i", "s">> \o Display \o <<"p", "l", "a", "y">>,
                  SUBFAMILY_NAME, WINDOWS_ENGLISH_IDS)>> >>

ExtraInputs ==
  << NameRecord(Inter \o SP \o Thin, FULL_NAME, WINDOWS_ENGLISH_IDS),
     NameRecord(Inter \o SP \o Display \o SP \o Thin, FULL_NAME, OTHER_IDS),
     NameRecord(Inter \o HYPHEN \o Thin, POSTSCRIPT_NAME, WINDOWS_ENGLISH_IDS),
     NameRecord(Inter \o Display \o HYPHEN \o Thin, POSTSCRIPT_NAME, OTHER_IDS),
     NameRecord(<<"1", ".", "0", ";">> \o Inter \o HYPHEN \o Thin,
                TRUETYPE_UNIQUE_ID, WINDOWS_ENGLISH_IDS),
     NameRecord(Ab \o SP \o Inter \o SP \o Bold, TRUETYPE_UNIQUE_ID, OTHER_IDS),
     NameRecord(Inter, VAR_PS_NAME_PREFIX, WINDOWS_ENGLISH_IDS),
     NameRecord(Inter \o Display, VAR_PS_NAME_PREFIX, MAC_ROMAN_IDS),
     NameRecord(Inter \o SP \o Inter, WWS_FAMILY, OTHER_IDS),
     NameRecord(<<"1", ".", "0">>, TRUETYPE_UNIQUE_ID, MAC_ROMAN_IDS),
     NameRecord(<<"1", ".", "0", " ">> \o Inter, 0, WINDOWS_ENGLISH_IDS) >>

\* The records of ExtraInputs at the positions in picked, in pool order
RECURSIVE pickExtras(_, _)
pickExtras(k, picked) ==
  IF k > Len(ExtraInputs) THEN <<>>
  ELSE (IF k \in picked THEN <<ExtraInputs[k]>> ELSE <<>>)
       \o pickExtras(k + 1, picked)

InputTables ==
  { FamilyInputs[f] \o StyleInputs[s] \o pickExtras(1, e) :
      f \in 1..Len(FamilyInputs), s \in 1..Len(StyleInputs),
      e \in {x \in SUBSET (1..Len(ExtraInputs)) : Cardinality(x) <= MaxExtra} }

\* --family: not given (None), or an override
FamilyArgs == {<<>>, Inter}

---------------------------------------------------------------------------
(* main(): load, setFamilyName, setStyleName, gen_stat, save.              *)

Init ==
  /\ orig \in InputTables
  /\ names = orig
  /\ family \in FamilyArgs
  /\ pc = "setFamilyName"
  /\ prevFamilyNames = <<>>
  /\ stylename = <<>>
  /\ stat = <<>>
  /\ saved = FALSE

\* Lines 344-345
nextFamilyArg(arg) == IF arg = <<>> THEN InterVariable ELSE arg

\* Lines 344-346
SetFamilyName ==
  /\ pc = "setFamilyName"
  /\ family' = nextFamilyArg(family)
  /\ names' = setFamilyName(names, nextFamilyArg(family))
  /\ prevFamilyNames' = IF getFamilyNames_raises(names) THEN <<>>
                        ELSE getFamilyNames(names)
  /\ \/ /\ setFamilyName_raises(names, nextFamilyArg(family))
        /\ pc' = "failed"
     \/ /\ ~setFamilyName_raises(names, nextFamilyArg(family))
        /\ pc' = "setStyleName"
  /\ UNCHANGED <<orig, stylename, stat, saved>>

\* Lines 349-351
cleanStyleName(s) ==
  IF remove_substring(s, Display) = <<>> THEN Regular
  ELSE remove_substring(s, Display)

\* Lines 349-352
SetStyleName ==
  /\ pc = "setStyleName"
  /\ \/ /\ getStyleName_raises(names)
        /\ pc' = "failed"
        /\ UNCHANGED <<names, stylename>>
     \/ /\ ~getStyleName_raises(names)
        /\ stylename' = cleanStyleName(getStyleName(names))
        /\ names' = setStyleName(names, cleanStyleName(getStyleName(names)))
        /\ pc' = "gen_stat"
  /\ UNCHANGED <<orig, family, prevFamilyNames, stat, saved>>

\* Line 355
GenStat ==
  /\ pc = "gen_stat"
  /\ \/ /\ font_is_italic_raises(names)
        /\ pc' = "failed"
        /\ UNCHANGED stat
     \/ /\ ~font_is_italic_raises(names)
        /\ stat' = stat_axes_format_2(font_is_italic(names))
        /\ pc' = "save"
  /\ UNCHANGED <<names, orig, family, prevFamilyNames, stylename, saved>>

\* Lines 364-365
Save ==
  /\ pc = "save"
  /\ saved' = TRUE
  /\ pc' = "done"
  /\ UNCHANGED <<names, orig, family, prevFamilyNames, stylename, stat>>

Next == SetFamilyName \/ SetStyleName \/ GenStat \/ Save

Spec == Init /\ [][Next]_vars

---------------------------------------------------------------------------
(* main() on fonts whose one subfamily record holds a style name built     *)
(* from at most MaxTokens tokens.                                          *)

MaxTokens == 3

StyleTokens ==
  <<Display, <<"D", "i", "s">>, <<"p", "l", "a", "y">>, SP, TAB, Thin, Italic>>

RECURSIVE concat(_)
concat(toks) ==
  IF toks = <<>> THEN <<>> ELSE StyleTokens[Head(toks)] \o concat(Tail(toks))

TokenStrings ==
  UNION { {concat(toks) : toks \in [1..n -> 1..Len(StyleTokens)]} :
            n \in 0..MaxTokens }

StyleTables ==
  { <<NameRecord(Inter, LEGACY_FAMILY, WINDOWS_ENGLISH_IDS)>> }
  \cup
  { <<NameRecord(Inter, LEGACY_FAMILY, WINDOWS_ENGLISH_IDS),
      NameRecord(s, k[1], k[2])>> :
      s \in TokenStrings,
      k \in { <<SUBFAMILY_NAME, WINDOWS_ENGLISH_IDS>>,
              <<TYPO_SUBFAMILY_NAME, MAC_ROMAN_IDS>> } }

InitStyle ==
  /\ orig \in StyleTables
  /\ names = orig
  /\ family \in FamilyArgs
  /\ pc = "setFamilyName"
  /\ prevFamilyNames = <<>>
  /\ stylename = <<>>
  /\ stat = <<>>
  /\ saved = FALSE

SpecStyle == InitStyle /\ [][Next]_vars

---------------------------------------------------------------------------
(* setFamilyName(font, "Inter Variable") followed by                       *)
(* setFamilyName(font, "Inter"), on the input fonts whose family is Inter. *)

InitRT ==
  /\ orig \in {t \in InputTables :
                 /\ ~getFamilyNames_raises(t)
                 /\ getFamilyNames(t) = <<Inter>>}
  /\ names = orig
  /\ family = <<>>
  /\ pc = "rename"
  /\ prevFamilyNames = <<>>
  /\ stylename = <<>>
  /\ stat = <<>>
  /\ saved = FALSE

Rename ==
  /\ pc = "rename"
  /\ family' = InterVariable
  /\ names' = setFamilyName(names, InterVariable)
  /\ prevFamilyNames' = getFamilyNames(names)
  /\ \/ /\ setFamilyName_raises(names, InterVariable)
        /\ pc' = "failed"
     \/ /\ ~setFamilyName_raises(names, InterVariable)
        /\ pc' = "renameBack"
  /\ UNCHANGED <<orig, stylename, stat, saved>>

\* The second call cannot raise: the family records exist, and "Inter" holds
\* no "Variable", so font_is_italic is not called
RenameBack ==
  /\ pc = "renameBack"
  /\ ~setFamilyName_raises(names, Inter)
  /\ family' = Inter
  /\ names' = setFamilyName(names, Inter)
  /\ prevFamilyNames' = getFamilyNames(names)
  /\ pc' = "restored"
  /\ UNCHANGED <<orig, stylename, stat, saved>>

NextRT == Rename \/ RenameBack

SpecRT == InitRT /\ [][NextRT]_vars

---------------------------------------------------------------------------
(* Properties.                                                             *)

\* gen_stat has run: the axis list is the one passed to buildStatTable
StatBuilt == pc \in {"save", "done"}

\* The style stage has run (cleanStyleName never yields the empty string)
StyleDone == stylename # <<>>

\* The point value or nominal value of an axis-value entry
EntryValue(v) == IF "value" \in DOMAIN v THEN v.value ELSE v.nominalValue

HasLink(v) == "linkedValue" \in DOMAIN v

IsElidable(v) == "flags" \in DOMAIN v /\ v.flags = 2

\* C5: for both values of the italic flag, the axis list has exactly the
\* axes opsz (0), wght (1), ital (2) in this order; the weight axis has the
\* nine nominal values 100..900, of which only 400 is elidable and it links
\* to 660; the italic axis has one entry: {value 1, "Italic"} without flag
\* or link for an italic font, {value 0, "Roman", elidable, linked to 1}
\* for a roman one.
C5_StatAxes ==
  StatBuilt =>
    /\ Len(stat) = 3
    /\ [i \in 1..3 |-> stat[i].tag] = <<"opsz", "wght", "ital">>
    /\ [i \in 1..3 |-> stat[i].ordering] = <<0, 1, 2>>
    /\ [i \in 1..Len(stat[2].values) |-> stat[2].values[i].nominalValue]
         = <<100, 200, 300, 400, 500, 580, 660, 780, 900>>
    /\ \A i \in 1..Len(stat[2].values) :
         LET v == stat[2].values[i]
         IN  IF v.nominalValue = 400
             THEN IsElidable(v) /\ HasLink(v) /\ v.linkedValue = 660
             ELSE "flags" \notin DOMAIN v /\ ~HasLink(v)
    /\ Len(stat[3].values) = 1
    /\ stat[3].values[1] =
         IF contains(names[getName(names, 2, <<3, 1, 1033>>)].string, Italic)
         THEN [value |-> 1, name |-> "Italic"]
         ELSE [value |-> 0, name |-> "Roman", flags |-> 2, linkedValue |-> 1]

C5_Witness ==
  /\ pc = "done"
  /\ stat[3].values[1].name = "Italic"
  /\ stat[2].values[4].name = "Regular"

\* C6: every axis-value entry emitted is of format 1 (a point value without
\* a linked value) or format 2 (a nominal value with a range); none is of
\* format 3 (a point value carrying a linked value) or format 4 (a location
\* over several axes).
C6_OnlyFormats1And2 ==
  StatBuilt =>
    \A a \in 1..Len(stat) : \A i \in 1..Len(stat[a].values) :
      LET v == stat[a].values[i]
      IN  /\ "location" \notin DOMAIN v
          /\ \/ "value" \in DOMAIN v /\ ~HasLink(v)
             \/ {"nominalValue", "rangeMinValue", "rangeMaxValue"}
                  \subseteq DOMAIN v

\* C9 as claimed: every entry that carries a linked value links to the
\* value of another entry of the same axis of the same table.
C9_LinkTargetPresent ==
  StatBuilt =>
    \A a \in 1..Len(stat) : \A i \in 1..Len(stat[a].values) :
      HasLink(stat[a].values[i]) =>
        \E j \in 1..Len(stat[a].values) :
          j # i /\ EntryValue(stat[a].values[j]) = stat[a].values[i].linkedValue

\* C9 as amended: every entry that carries a linked value links to the
\* value of another entry of the same axis of the same table, except the
\* italic-axis entry of a roman font (value 0, "Roman"), which links to 1,
\* the value of no entry of that table.
C9_LinkTargetPresentButRoman ==
  StatBuilt =>
    \A a \in 1..Len(stat) : \A i \in 1..Len(stat[a].values) :
      HasLink(stat[a].values[i]) =>
        \/ \E j \in 1..Len(stat[a].values) :
             j # i /\ EntryValue(stat[a].values[j]) = stat[a].values[i].linkedValue
        \/ /\ stat[a].tag = "ital"
           /\ stat[a].values[i].name = "Roman"
           /\ EntryValue(stat[a].values[i]) = 0
           /\ stat[a].values[i].linkedValue = 1
           /\ Len(stat[a].values) = 1

C9_Witness ==
  /\ pc = "done"
  /\ HasLink(stat[3].values[1])
  /\ HasLink(stat[2].values[4])

\* C8: the candidate list of getFamilyNames is deduplicated and sorted by
\* descending length: no candidate is preceded by a strictly shorter one.
C8_LongestFirst ==
  \A i \in 1..Len(prevFamilyNames) : \A j \in 1..Len(prevFamilyNames) :
    i < j => /\ prevFamilyNames[i] # prevFamilyNames[j]
             /\ Len(prevFamilyNames[i]) >= Len(prevFamilyNames[j])

\* C10: in a run that synthesizes the nameID 25 records (none in the input,
\* the new family name contains "Variable"), the prefix written to the
\* Mac-Roman and Windows-English nameID 25 records ends in "Italic" exactly
\* when the STAT table built later in the run gets the {value 1, "Italic"}
\* entry on its italic axis.
C10_ItalicDecisionsAgree ==
  (StatBuilt /\ ~found_VAR_PS_NAME_PREFIX(orig) /\ contains(family, Variable)) =>
    \A ids \in {MAC_ROMAN_IDS, WINDOWS_ENGLISH_IDS} :
      /\ getName(names, 25, ids) # 0
      /\ (names[getName(names, 25, ids)].string
            = SelectSeq(family, LAMBDA c : ~isspace(c)) \o Italic)
         <=> (stat[3].values[1] = [value |-> 1, name |-> "Italic"])

\* The new family name, or its PostScript-safe form, occurs in s
ContainsNew(s) ==
  contains(s, InterVariable) \/ contains(s, Inter \o Variable)

\* A previous family name occurs in s outside the occurrences of the new
\* family name and of its PostScript-safe form
HasLeftover(s) ==
  LET rest == replace(replace(s, InterVariable, <<"#">>),
                      Inter \o Variable, <<"#">>)
  IN  \E k \in 1..Len(prevFamilyNames) : contains(rest, prevFamilyNames[k])

FamilyRelated(rec) == rec.nameID \in {1, 3, 4, 6, 16, 21, 25}

\* The run of main is complete and --family was not given
DefaultRunDone == pc = "done" /\ family = InterVariable

\* C1 as claimed: after the whole pipeline with no --family override, every
\* family-related record (nameID 1, 3, 4, 6, 16, 21, 25) contains
\* "Inter Variable" or "InterVariable", and no previous family name is left
\* over in it.
C1_AllRenamed ==
  DefaultRunDone =>
    \A i \in 1..Len(names) :
      FamilyRelated(names[i]) =>
        ContainsNew(names[i].string) /\ ~HasLeftover(names[i].string)

\* setFamilyName looks for these candidates in a record of the input: the
\* PostScript forms in a nameID 6 record, the PostScript forms and then the
\* family names in a nameID 3 record, the family names in the others
Candidates(rec) ==
  IF rec.nameID = 6 THEN psPrevFamilyNames(prevFamilyNames)
  ELSE IF rec.nameID = 3
       THEN psPrevFamilyNames(prevFamilyNames) \o prevFamilyNames
       ELSE prevFamilyNames

HasCandidate(rec) ==
  \E k \in 1..Len(Candidates(rec)) : contains(rec.string, Candidates(rec)[k])

\* The full-name and PostScript-name records the style stage writes
WrittenByStyleStage(rec) ==
  /\ rec.nameID \in {4, 6}
  /\ <<rec.platformID, rec.platEncID, rec.langID>>
       \in {MAC_ROMAN_IDS, WINDOWS_ENGLISH_IDS}

\* C1 as amended: after the whole pipeline with no --family override, a
\* family-related record contains "Inter Variable" or "InterVariable" if
\* the input record held one of the candidates searched in it, or if it is
\* a Mac-Roman or Windows-English full-name or PostScript-name record, or if
\* the run added it; every other family-related record is as in the input.
C1_MatchedRenamed ==
  DefaultRunDone =>
    /\ Len(names) >= Len(orig)
    /\ \A i \in 1..Len(names) :
         FamilyRelated(names[i]) =>
           IF \/ i > Len(orig)
              \/ WrittenByStyleStage(names[i])
              \/ HasCandidate(orig[i])
           THEN ContainsNew(names[i].string)
           ELSE names[i] = orig[i]

C1_Witness ==
  /\ DefaultRunDone
  /\ Len(prevFamilyNames) = 2
  /\ \E i \in 1..Len(orig) :
       /\ orig[i].nameID = 3
       /\ HasCandidate(orig[i])
       /\ names[i] # orig[i]
  /\ \E i \in 1..Len(orig) :
       /\ FamilyRelated(orig[i])
       /\ ~WrittenByStyleStage(orig[i])
       /\ ~HasCandidate(orig[i])

FamilyRecords(table) ==
  {table[i] : i \in {j \in 1..Len(table) : FamilyRelated(table[j])}}

\* C2 as claimed: renaming a font whose family is "Inter" to
\* "Inter Variable" and back to "Inter" leaves every family-related record
\* with the string it had, and the same set of family-related records.
C2_RoundTrip ==
  pc = "restored" => FamilyRecords(names) = FamilyRecords(orig)

\* C2 as amended: renaming a font whose family is "Inter" to
\* "Inter Variable" and back to "Inter" leaves every record of the input
\* with the string it had; when the input has no nameID 25 record, the
\* Mac-Roman and Windows-English nameID 25 records the first call adds stay,
\* holding "InterVariable" or "InterVariableItalic".
C2_RoundTripKeepsAdded ==
  pc = "restored" =>
    /\ Len(names) >= Len(orig)
    /\ \A i \in 1..Len(orig) : names[i] = orig[i]
    /\ (Len(names) > Len(orig)) <=> ~found_VAR_PS_NAME_PREFIX(orig)
    /\ \A i \in (Len(orig) + 1)..Len(names) :
         /\ names[i].nameID = 25
         /\ <<names[i].platformID, names[i].platEncID, names[i].langID>>
              \in {MAC_ROMAN_IDS, WINDOWS_ENGLISH_IDS}
         /\ names[i].string \in {Inter \o Variable, Inter \o Variable \o Italic}

C2_Witness ==
  /\ pc = "restored"
  /\ Len(names) = Len(orig) + 2
  /\ \E i \in 1..Len(orig) :
       orig[i].nameID = 6 /\ contains(orig[i].string, Inter)
  /\ \E i \in 1..Len(orig) :
       orig[i].nameID = 3 /\ contains(orig[i].string, Inter)

\* Every subfamily record (nameID 2 and 17) of the table holds s
SubfamilyRecordsHold(s) ==
  \A i \in 1..Len(names) : names[i].nameID \in {2, 17} => names[i].string = s

\* C3 as claimed: remove_substring(s, "Display") applied twice equals it
\* applied once, for every style string s; and for every font whose style
\* name holds no "Display", the style name written to the nameID 2 and 17
\* records equals the style name getStyleName read.
C3_CleanupIdempotent ==
  StyleDone =>
    LET s == getStyleName(orig)
    IN  /\ remove_substring(remove_substring(s, Display), Display)
             = remove_substring(s, Display)
        /\ ~contains(s, Display) => SubfamilyRecordsHold(s)

\* s is non-empty, has no whitespace but single spaces, none at its ends
WhitespaceNormal(s) ==
  /\ s # <<>>
  /\ \A i \in 1..Len(s) : s[i] # "\t"
  /\ s[1] # " " /\ s[Len(s)] # " "
  /\ \A i \in 1..(Len(s) - 1) : ~(s[i] = " " /\ s[i + 1] = " ")

\* C3 as amended: remove_substring(s, "Display") applied twice equals it
\* applied once for every style string s whose cleaned form holds no
\* "Display" (the removal can create an occurrence, as in "DisDisplayplay");
\* and for every font whose style name holds no "Display", is not empty and
\* has no whitespace but single inner spaces, the style name written to the
\* nameID 2 and 17 records equals the style name getStyleName read.
C3_CleanupIdempotentOnClean ==
  StyleDone =>
    LET s == getStyleName(orig)
    IN  /\ ~contains(remove_substring(s, Display), Display) =>
             remove_substring(remove_substring(s, Display), Display)
               = remove_substring(s, Display)
        /\ (~contains(s, Display) /\ WhitespaceNormal(s)) =>
             SubfamilyRecordsHold(s)

C3_Witness ==
  /\ StyleDone
  /\ contains(getStyleName(orig), Display \o SP)
  /\ stylename = Thin

C3_WitnessClean ==
  /\ StyleDone
  /\ ~contains(getStyleName(orig), Display)
  /\ WhitespaceNormal(getStyleName(orig))
  /\ Len(getStyleName(orig)) > 6

\* C4: after the style stage, the written style name is "Regular" if the
\* input style name is empty once "Display" is removed and whitespace
\* normalized; the Mac-Roman and Windows-English nameID 4 records hold the
\* trimmed family name if the style is "Regular" and the trimmed family
\* name, a space and the style otherwise; the nameID 6 records of both
\* platforms hold that full name without its whitespace; and every nameID 2
\* and 17 record, of any platform, holds the new style name.
C4_StyleStage ==
  StyleDone =>
    LET trimmed == strip(getFamilyName(names))
        full == IF stylename = Regular THEN trimmed
                ELSE trimmed \o SP \o stylename
    IN  /\ (remove_substring(getStyleName(orig), Display) = <<>>)
             => stylename = Regular
        /\ \A ids \in {MAC_ROMAN_IDS, WINDOWS_ENGLISH_IDS} :
             /\ getName(names, 4, ids) # 0
             /\ names[getName(names, 4, ids)].string = full
             /\ getName(names, 6, ids) # 0
             /\ names[getName(names, 6, ids)].string
                  = SelectSeq(full, LAMBDA c : ~isspace(c))
        /\ SubfamilyRecordsHold(stylename)

C4_Witness ==
  /\ StyleDone
  /\ getStyleName(orig) = Display
  /\ stylename = Regular
  /\ names[getName(names, 4, WINDOWS_ENGLISH_IDS)].string = InterVariable

C4_WitnessSuffix ==
  /\ StyleDone
  /\ stylename = Thin \o SP \o Italic
  /\ \E i \in 1..Len(orig) :
       orig[i].nameID = 2 /\ orig[i].langID = 1031 /\ names[i] # orig[i]

\* A name main requires is absent from the input: no family name, no style
\* name, or no Windows-English nameID 2 record for font_is_italic
RequiredNameAbsent ==
  \/ getFamilyName_raises(orig)
  \/ getStyleName_raises(orig)
  \/ font_is_italic_raises(orig)

\* C7 as claimed: in every run in which a required family or style name is
\* absent, the pipeline fails before any record of the in-memory name table
\* is modified or added, and font.save is never called.
C7_FailsBeforeMutation ==
  RequiredNameAbsent =>
    /\ ~saved /\ pc # "done"
    /\ pc = "failed" => names = orig

\* C7 as amended: in every run in which a required family or style name is
\* absent, font.save is never called; if it is the family name that is
\* absent, the pipeline fails before any record of the in-memory name table
\* is modified or added (with only a style name absent, the family records
\* are rewritten in memory before the failure).
C7_NeverSaved ==
  RequiredNameAbsent =>
    /\ ~saved /\ pc \notin {"save", "done"}
    /\ getFamilyName_raises(orig) => names = orig /\ pc # "setStyleName"

C7_Witness ==
  /\ pc = "failed"
  /\ getStyleName_raises(orig)
  /\ names # orig

C7_WitnessFamily ==
  /\ pc = "failed"
  /\ getFamilyName_raises(orig)
  /\ Len(orig) > 0

===========================================================================
